---- MODULE Spec2Model ----
(***************************************************************************)
(* Model of the claims-risk scoring core.                                  *)
(*                                                                         *)
(* Part 1: HCCMapper (src/utils/hcc_mapping.py).                           *)
(* Part 2: ClaimsProcessor (src/utils/data_processing.py).                 *)
(* Part 3: the service (src/main.py).                                      *)
(*                                                                         *)
(* Conventions.                                                            *)
(*  - Weights and adjustments are decimal numbers with one fractional      *)
(*    digit in the source; the model holds them in tenths (1.2 is 12), so  *)
(*    sums are exact.  Binary floating-point rounding of the sums is not   *)
(*    modelled.                                                            *)
(*  - A Python str is a sequence of one-character strings, so that         *)
(*    str.lower() is a computation and not the identity.                   *)
(*  - A Python list object has an identity: list_objects maps the identity *)
(*    to the current contents, and dicts hold identities.  This is what    *)
(*    makes dict.copy() (a shallow copy) different from a deep copy.       *)
(*  - A call that returns gives raised = "none"; a call that raises gives  *)
(*    the exception's name.                                                *)
(***************************************************************************)
EXTENDS Integers, Sequences, FiniteSets, TLC

\* ------------------------------------------------------------------ bounds
\* Largest number of keys in a conditions dict passed by a caller.
MaxKeys == 2
\* Largest number of list.append calls a caller makes on returned lists.
MaxAppends == 2

\* ----------------------------------------------------------- Python strings
Str_male == <<"m", "a", "l", "e">>
Str_female == <<"f", "e", "m", "a", "l", "e">>
Str_unknown == <<"u", "n", "k", "n", "o", "w", "n">>
Str_Male == <<"M", "a", "l", "e">>
Str_FEMALE == <<"F", "E", "M", "A", "L", "E">>
Str_other == <<"o", "t", "h", "e", "r">>
Str_empty == <<>>
Str_nan == <<"n", "a", "n">>
\* Python's None, which is no string: a value that no sequence of characters equals.
NoneVal == <<"None">>

UpperToLower ==
    [A |-> "a", B |-> "b", C |-> "c", D |-> "d", E |-> "e", F |-> "f", G |-> "g",
     H |-> "h", I |-> "i", J |-> "j", K |-> "k", L |-> "l", M |-> "m", N |-> "n",
     O |-> "o", P |-> "p", Q |-> "q", R |-> "r", S |-> "s", T |-> "t", U |-> "u",
     V |-> "v", W |-> "w", X |-> "x", Y |-> "y", Z |-> "z"]

\* str.lower(), character by character.
Lower(s) == [i \in DOMAIN s |-> IF s[i] \in DOMAIN UpperToLower THEN UpperToLower[s[i]] ELSE s[i]]

\* ------------------------------------------------------- tables of __init__
HccMappingLiteral ==
    [diabetes |-> <<"HCC_18", "HCC_19">>,
     diabetes_complications |-> <<"HCC_17", "HCC_18", "HCC_19">>,
     hypertension |-> <<"HCC_85", "HCC_86">>,
     heart_disease |-> <<"HCC_85", "HCC_88", "HCC_96">>,
     heart_failure |-> <<"HCC_85", "HCC_88">>,
     stroke |-> <<"HCC_100", "HCC_101">>,
     copd |-> <<"HCC_111", "HCC_112">>,
     asthma |-> <<"HCC_111">>,
     cancer |-> <<"HCC_8", "HCC_9", "HCC_10", "HCC_11", "HCC_12">>,
     breast_cancer |-> <<"HCC_9">>,
     lung_cancer |-> <<"HCC_8">>,
     prostate_cancer |-> <<"HCC_10">>,
     kidney_disease |-> <<"HCC_136", "HCC_137">>,
     dialysis |-> <<"HCC_136">>,
     mental_health |-> <<"HCC_57", "HCC_58", "HCC_59">>,
     depression |-> <<"HCC_58">>,
     anxiety |-> <<"HCC_57">>,
     bipolar |-> <<"HCC_59">>,
     arthritis |-> <<"HCC_40", "HCC_41">>,
     osteoporosis |-> <<"HCC_40">>,
     alzheimer |-> <<"HCC_51", "HCC_52">>,
     parkinson |-> <<"HCC_51">>,
     hiv |-> <<"HCC_1", "HCC_2">>,
     substance_abuse |-> <<"HCC_54", "HCC_55">>]

\* In tenths.
HccWeightsLiteral ==
    [HCC_1 |-> 10, HCC_2 |-> 8, HCC_8 |-> 25, HCC_9 |-> 18, HCC_10 |-> 15,
     HCC_11 |-> 20, HCC_12 |-> 22, HCC_17 |-> 5, HCC_18 |-> 12, HCC_19 |-> 15,
     HCC_40 |-> 3, HCC_41 |-> 4, HCC_51 |-> 18, HCC_52 |-> 15, HCC_54 |-> 6,
     HCC_55 |-> 8, HCC_57 |-> 4, HCC_58 |-> 5, HCC_59 |-> 7, HCC_85 |-> 8,
     HCC_86 |-> 6, HCC_88 |-> 12, HCC_96 |-> 10, HCC_100 |-> 15, HCC_101 |-> 18,
     HCC_111 |-> 7, HCC_112 |-> 10, HCC_136 |-> 20, HCC_137 |-> 15]

\* The keys of the age-sex table: ('male', 0) .. ('male', 100), ('female', 0) .. ('female', 100).
AgeSexKeys == {Str_male, Str_female} \X (0..100)

\* Every entry of the table of __init__ is 0.0.
AgeSexLiteral == [k \in AgeSexKeys |-> 0]

\* ------------------------------------------------------------------- state
VARIABLES
    hcc_mapping,            \* self.hcc_mapping: condition name -> identity of its list
    list_objects,           \* identity of a list object -> its contents (a sequence of codes)
    hcc_weights,            \* self.hcc_weights: code -> weight in tenths
    age_sex_table,          \* which table self.age_sex_coefficients holds (no code writes it)
    args,                   \* the caller's arguments: its conditions dict, age and gender, or its member Series
    last,                   \* the caller's last call and the value it holds from it
    files,                  \* the files of the service: data/processed_claims.csv, data/sample_claims.csv, models/risk_adjustment_model.pkl
    risk_model,             \* the RiskAdjustmentModel of the service process
    cost_driver_model       \* the CostDriverAnalysis of the service process

vars ==
    <<hcc_mapping, list_objects, hcc_weights, age_sex_table, args, last, files, risk_model,
      cost_driver_model>>

mapper == <<hcc_mapping, list_objects, hcc_weights, age_sex_table>>

\* What the service (src/main.py) holds besides its mapper; no method of HCCMapper or of
\* ClaimsProcessor reads or writes it.
service == <<files, risk_model, cost_driver_model>>

\* Adjustment tables other than the table of __init__: dense tables whose entries differ
\* by gender and at the first and last age, and a sparse table without the female keys.
DenseTable(x, y) ==
    [k \in AgeSexKeys |->
        IF k[1] = Str_male
        THEN (IF k[2] = 0 THEN x ELSE IF k[2] = 100 THEN y ELSE 3)
        ELSE (IF k[2] = 0 THEN y ELSE IF k[2] = 100 THEN x ELSE -2)]

SparseTable == [k \in {Str_male} \X (0..100) |-> IF k[2] = 100 THEN -40 ELSE 7]

\* self.age_sex_coefficients: <<gender, age>> -> adjustment in tenths.
age_sex_coefficients ==
    IF age_sex_table.kind = "literal" THEN AgeSexLiteral
    ELSE IF age_sex_table.kind = "sparse" THEN SparseTable
    ELSE DenseTable(age_sex_table.first, age_sex_table.last)

\* ----------------------------------------------------------------- helpers
Max(a, b) == IF a >= b THEN a ELSE b
Min(a, b) == IF a <= b THEN a ELSE b

ToSet(s) == {s[i] : i \in DOMAIN s}

RECURSIVE SetToSeq(_)
\* The elements of a finite set, each once, in one fixed order.
SetToSeq(S) ==
    IF S = {} THEN <<>>
    ELSE LET x == CHOOSE y \in S : TRUE IN <<x>> \o SetToSeq(S \ {x})

\* The catalog as a caller reads it: condition name -> contents of its list.
Catalog == [c \in DOMAIN hcc_mapping |-> list_objects[hcc_mapping[c]]]

\* Python truth value of a flag (an int) and of a gender argument (a str or None).
TruthyFlag(present) == present /= 0
TruthyStr(s) == s /= NoneVal /\ s /= Str_empty

\* ------------------------------------------------- map_conditions_to_hcc
\* The guard without "condition in self.hcc_mapping": an unknown name raises KeyError
\* (a faulty variant of codes_for).
codes_for_unguarded(condition, present) ==
    IF ~TruthyFlag(present) THEN [raised |-> "none", codes |-> <<>>]
    ELSE IF condition \in DOMAIN hcc_mapping
         THEN [raised |-> "none", codes |-> list_objects[hcc_mapping[condition]]]
         ELSE [raised |-> "KeyError", codes |-> <<>>]

\* One turn of the loop: what the condition adds to hcc_codes.
codes_for(condition, present) ==
    IF TruthyFlag(present) /\ condition \in DOMAIN hcc_mapping
    THEN [raised |-> "none", codes |-> list_objects[hcc_mapping[condition]]]
    ELSE [raised |-> "none", codes |-> <<>>]

RECURSIVE extend_codes(_, _)
\* The loop over conditions.items(): hcc_codes after extending it for each key of
\* keys (a sequence of condition names) in turn.
extend_codes(conditions, keys) ==
    IF keys = <<>> THEN [raised |-> "none", codes |-> <<>>]
    ELSE LET head == codes_for(keys[1], conditions[keys[1]])
             rest == extend_codes(conditions, Tail(keys))
         IN  IF head.raised /= "none" THEN head
             ELSE IF rest.raised /= "none" THEN rest
             ELSE [raised |-> "none", codes |-> head.codes \o rest.codes]

\* list(hcc_codes) without set(): duplicates kept (a faulty variant of unique_codes).
unique_codes_keep_duplicates(hcc_codes) == hcc_codes

\* list(set(hcc_codes)): each code once.  The order of the list is the iteration order of
\* the set, which Python does not specify; the model takes one order and no property
\* below reads it.
unique_codes(hcc_codes) == SetToSeq(ToSet(hcc_codes))

\* map_conditions_to_hcc(conditions): [raised, value], value one of the possible lists.
map_conditions_to_hcc(conditions) ==
    LET ext == extend_codes(conditions, SetToSeq(DOMAIN conditions))
    IN  IF ext.raised /= "none" THEN [raised |-> ext.raised]
        ELSE [raised |-> "none", value |-> unique_codes(ext.codes)]

\* --------------------------------------------------- calculate_hcc_score
RECURSIVE base_score_last_only(_)
\* "hcc_score = weight" for "hcc_score += weight": only the last weighted code counts
\* (a faulty variant of base_score).
base_score_last_only(hcc_codes) ==
    IF hcc_codes = <<>> THEN 0
    ELSE LET n == Len(hcc_codes)
         IN  IF hcc_codes[n] \in DOMAIN hcc_weights THEN hcc_weights[hcc_codes[n]]
             ELSE base_score_last_only(SubSeq(hcc_codes, 1, n - 1))

RECURSIVE base_score(_)
\* The loop over hcc_codes: the sum of the weights of the codes that have one.
base_score(hcc_codes) ==
    IF hcc_codes = <<>> THEN 0
    ELSE (IF Head(hcc_codes) \in DOMAIN hcc_weights THEN hcc_weights[Head(hcc_codes)] ELSE 0)
         + base_score(Tail(hcc_codes))

\* age_group = min(age // 1, 100)
age_group_of(age) == Min(age \div 1, 100)

\* gender_key without lower() (a faulty variant of gender_key_of).
gender_key_as_given(gender) == IF TruthyStr(gender) THEN gender ELSE Str_unknown

\* gender_key = gender.lower() if gender else 'unknown'
gender_key_of(gender) == IF TruthyStr(gender) THEN Lower(gender) ELSE Str_unknown

\* The lookup with its default: the coefficient of the key, 0.0 when the key is absent.
age_sex_coeff_of(gender_key, age_group) ==
    IF <<gender_key, age_group>> \in DOMAIN age_sex_coefficients
    THEN age_sex_coefficients[<<gender_key, age_group>>]
    ELSE 0

\* The sum returned as it is, without max(0.0, ...) (a faulty variant of final_score_of).
final_score_unfloored(hcc_score, age_sex_coeff) == hcc_score + age_sex_coeff

\* final_score = hcc_score + age_sex_coeff; return max(0.0, final_score)
final_score_of(hcc_score, age_sex_coeff) == Max(0, hcc_score + age_sex_coeff)

\* calculate_hcc_score(conditions, age, gender): [raised, value], value in tenths.
calculate_hcc_score(conditions, age, gender) ==
    LET hcc_codes == map_conditions_to_hcc(conditions)
    IN  IF hcc_codes.raised /= "none" THEN [raised |-> hcc_codes.raised]
        ELSE [raised |-> "none",
              value |-> final_score_of(base_score(hcc_codes.value),
                                       age_sex_coeff_of(gender_key_of(gender), age_group_of(age)))]

\* ------------------------------------------- calculate_member_risk_score
\* A cell of the member's pandas Series: pd.isna(cell) is cell.nan, its value cell.v.
NaNCell == [nan |-> TRUE]
Cell(v) == [nan |-> FALSE, v |-> v]

\* member_data.get(key, default)
series_get(member_data, key, default) ==
    IF key \in DOMAIN member_data THEN member_data[key] ELSE Cell(default)

\* str(x) of a gender cell: a string is itself, a missing value prints as "nan".
PyStr(cell) == IF cell.nan THEN Str_nan ELSE cell.v

condition_columns ==
    <<"diabetes", "hypertension", "heart_disease", "copd", "cancer", "kidney_disease",
      "mental_health">>

\* The conditions dict built by the loop over condition_columns.
member_conditions(member_data) ==
    [col \in ToSet(condition_columns) |->
        IF col \in DOMAIN member_data
        THEN (IF ~member_data[col].nan THEN member_data[col].v ELSE 0)
        ELSE 0]

\* age = int(member_data.get('age', 0)) if not pd.isna(member_data.get('age', 0)) else 0
member_age(member_data) ==
    LET cell == series_get(member_data, "age", 0) IN IF ~cell.nan THEN cell.v ELSE 0

\* gender = str(member_data.get('gender', 'unknown')).lower()
member_gender(member_data) == Lower(PyStr(series_get(member_data, "gender", Str_unknown)))

\* calculate_member_risk_score(member_data): [raised, value].
calculate_member_risk_score(member_data) ==
    calculate_hcc_score(member_conditions(member_data), member_age(member_data),
                        member_gender(member_data))

\* ------------------------------------------------------ what callers pass
\* Condition names callers use: three of the catalog (two of them overlapping in
\* HCC_18 and HCC_19, the third disjoint from both) and one the catalog lacks.
InputNames == {"diabetes", "diabetes_complications", "hypertension", "mystery"}

ConditionDicts ==
    UNION {[K -> {0, 1}] : K \in {K \in SUBSET InputNames : Cardinality(K) <= MaxKeys}}

\* Below the table, its first key, inside, its last key, above the table.
InputAges == {-1, 0, 65, 100, 101}

InputGenders == {Str_male, Str_Male, Str_female, Str_FEMALE, Str_other, Str_empty, NoneVal}

\* Condition columns a member Series may hold (two that overlap in HCC_85).
MemberColumns == {"hypertension", "heart_disease"}

EmptyDict == [x \in {} |-> 0]

MemberSeriesOf(ages, genders) ==
    {(conds @@ age) @@ gender :
        conds \in UNION {[K -> {Cell(0), Cell(1), NaNCell}] : K \in SUBSET MemberColumns},
        age \in {EmptyDict} \cup {[k \in {"age"} |-> c] : c \in {Cell(a) : a \in ages} \cup {NaNCell}},
        gender \in {EmptyDict} \cup {[k \in {"gender"} |-> c] : c \in {Cell(g) : g \in genders} \cup {NaNCell}}}

\* The arguments a caller holds: those of calculate_hcc_score (map_conditions_to_hcc takes
\* the first of them), or the Series of calculate_member_risk_score.
ArgsOf(ages, genders) ==
    {[kind |-> "conditions", conditions |-> c, age |-> a, gender |-> g] :
        c \in ConditionDicts, a \in ages, g \in genders}
    \cup {[kind |-> "member", member_data |-> m] : m \in MemberSeriesOf(ages, genders \ {Str_empty, NoneVal})}

\* A file that does not exist; the files of a service that has stored nothing.
NoFile == [exists |-> FALSE]
NoFiles ==
    [processed_claims |-> NoFile, sample_claims |-> NoFile, risk_adjustment_model |-> NoFile]

\* RiskAdjustmentModel() and CostDriverAnalysis() as constructed: nothing fitted.
Untrained == [trained |-> FALSE]
Unfitted == [fitted |-> FALSE]

\* ----------------------------------------------------------------- actions
\* HCCMapper(): the tables of __init__, the age-sex table one of `tables`; the caller
\* holds some arguments and has made no call yet.
InitWith(arguments, tables) ==
    /\ hcc_mapping = [c \in DOMAIN HccMappingLiteral |-> c]
    /\ list_objects = HccMappingLiteral
    /\ hcc_weights = HccWeightsLiteral
    /\ age_sex_table \in tables
    /\ args \in arguments
    /\ last = [op |-> "init"]
    /\ files = NoFiles
    /\ risk_model = Untrained
    /\ cost_driver_model = Unfitted

\* map_conditions_to_hcc with "hcc_codes = self.hcc_mapping[condition]" for the first
\* condition found, so that the later extend() calls write into the catalog's own list
\* (a faulty variant of MapConditionsToHcc).
MapConditionsToHccIntoCatalog ==
    /\ args.kind = "conditions"
    /\ LET r == map_conditions_to_hcc(args.conditions)
           found == {c \in DOMAIN args.conditions \cap DOMAIN hcc_mapping : TruthyFlag(args.conditions[c])}
       IN  /\ last' = [op |-> "map_conditions_to_hcc", raised |-> r.raised,
                       result |-> IF r.raised = "none" THEN r.value ELSE <<>>]
           /\ list_objects' =
                 IF found = {} \/ list_objects /= HccMappingLiteral THEN list_objects
                 ELSE [list_objects EXCEPT ![hcc_mapping[SetToSeq(found)[1]]] =
                          extend_codes(args.conditions, SetToSeq(DOMAIN args.conditions)).codes]
    /\ UNCHANGED <<hcc_mapping, hcc_weights, age_sex_table, args, service>>

\* A call of map_conditions_to_hcc(conditions).
MapConditionsToHcc ==
    /\ args.kind = "conditions"
    /\ LET r == map_conditions_to_hcc(args.conditions)
       IN  last' = [op |-> "map_conditions_to_hcc", raised |-> r.raised,
                    result |-> IF r.raised = "none" THEN r.value ELSE <<>>]
    /\ UNCHANGED <<mapper, args, service>>

\* A call of calculate_hcc_score(conditions, age, gender).
CalculateHccScore ==
    /\ args.kind = "conditions"
    /\ LET r == calculate_hcc_score(args.conditions, args.age, args.gender)
       IN  last' = [op |-> "calculate_hcc_score", raised |-> r.raised,
                    result |-> IF r.raised = "none" THEN r.value ELSE 0]
    /\ UNCHANGED <<mapper, args, service>>

\* A call of calculate_member_risk_score(member_data).
CalculateMemberRiskScore ==
    /\ args.kind = "member"
    /\ LET r == calculate_member_risk_score(args.member_data)
       IN  last' = [op |-> "calculate_member_risk_score", raised |-> r.raised,
                    result |-> IF r.raised = "none" THEN r.value ELSE 0]
    /\ UNCHANGED <<mapper, args, service>>

\* get_hcc_weights: self.hcc_weights.copy(), a new dict with the same (immutable) weights.
GetHccWeights ==
    /\ last' = [op |-> "get_hcc_weights", raised |-> "none", result |-> hcc_weights]
    /\ UNCHANGED <<mapper, args, service>>

\* get_condition_mapping: self.hcc_mapping.copy(), a new dict that holds the SAME list
\* objects as the mapper's own dict (a shallow copy).
GetConditionMapping ==
    /\ last' = [op |-> "get_condition_mapping", raised |-> "none", result |-> hcc_mapping]
    /\ UNCHANGED <<mapper, args, service>>

\* What a caller does with a returned dict.  The lists it appends to and the codes it
\* appends: one code the weight table has, one it lacks.
CallerConditions == {"diabetes", "hypertension"}
CallerCodes == {"HCC_8", "HCC_999"}

RECURSIVE AppendedIn(_)
\* The number of codes appended so far to the lists of the given identities.
AppendedIn(keys) ==
    IF keys = {} THEN 0
    ELSE LET c == CHOOSE k \in keys : TRUE
         IN  Len(list_objects[c]) - Len(HccMappingLiteral[c]) + AppendedIn(keys \ {c})

\* returned[condition].append(code) on the dict get_condition_mapping returned.
CallerAppend ==
    /\ last.op = "get_condition_mapping"
    /\ AppendedIn(DOMAIN list_objects) < MaxAppends
    /\ \E condition \in CallerConditions \cap DOMAIN last.result, code \in CallerCodes :
          list_objects' = [list_objects EXCEPT ![last.result[condition]] = Append(@, code)]
    /\ UNCHANGED <<hcc_mapping, hcc_weights, age_sex_table, args, last, service>>

\* del returned[key] on the dict a getter returned.
CallerDelete ==
    /\ last.op \in {"get_condition_mapping", "get_hcc_weights"}
    /\ \E key \in (CallerConditions \cup CallerCodes) \cap DOMAIN last.result :
          last' = [last EXCEPT !.result = [k \in DOMAIN last.result \ {key} |-> last.result[k]]]
    /\ UNCHANGED <<mapper, args, service>>

\* returned[code] = 0.0 on the dict get_hcc_weights returned.
CallerSetWeight ==
    /\ last.op = "get_hcc_weights"
    /\ \E code \in CallerCodes \cap DOMAIN last.result :
          last' = [last EXCEPT !.result = [@ EXCEPT ![code] = 0]]
    /\ UNCHANGED <<mapper, args, service>>

Next ==
    \/ MapConditionsToHcc
    \/ CalculateHccScore
    \/ CalculateMemberRiskScore
    \/ GetHccWeights
    \/ GetConditionMapping
    \/ CallerAppend
    \/ CallerDelete
    \/ CallerSetWeight

\* The ages and genders of the callers of Spec; with the table of __init__ no result
\* depends on them.
CatalogAges == {65}
CatalogGenders == {Str_Male}

Init == InitWith(ArgsOf(CatalogAges, CatalogGenders), {[kind |-> "literal"]})

\* The mapper as constructed, used through its public methods by any caller.
Spec == Init /\ [][Next]_vars

\* ------------------------------------ the scoring functions over any table
\* The adjustment tables: the table of __init__, the sparse table and four dense tables.
AdjustmentValues == {-40, 7}

AgeSexTables ==
    {[kind |-> "literal"], [kind |-> "sparse"]}
    \cup {[kind |-> "dense", first |-> x, last |-> y] : x \in AdjustmentValues, y \in AdjustmentValues}

InitTables == InitWith(ArgsOf(InputAges, InputGenders), AgeSexTables)

NextScoring ==
    \/ MapConditionsToHcc
    \/ CalculateHccScore
    \/ CalculateMemberRiskScore

\* The scoring functions of a mapper whose adjustment table holds any of AgeSexTables,
\* on arguments of every age and gender of InputAges and InputGenders.
SpecTables == InitTables /\ [][NextScoring]_vars

\* ======================================================================
\* Properties.  What the claims speak of, defined from the tables alone.
\* ======================================================================
ScoringOps == {"map_conditions_to_hcc", "calculate_hcc_score", "calculate_member_risk_score"}

\* The catalog conditions whose flag is truthy in a conditions dict.
TruthyConditions(conditions) ==
    {c \in DOMAIN conditions \cap DOMAIN Catalog : conditions[c] /= 0}

\* The category codes of a condition, and those triggered by a conditions dict.
CategoriesOf(c) == ToSet(Catalog[c])
TriggeredCodes(conditions) == UNION {CategoriesOf(c) : c \in TruthyConditions(conditions)}

RECURSIVE WeightSum(_)
\* The sum of the weights of a set of codes, each code once; a code without weight adds 0.
WeightSum(codes) ==
    IF codes = {} THEN 0
    ELSE LET c == CHOOSE x \in codes : TRUE
         IN  (IF c \in DOMAIN hcc_weights THEN hcc_weights[c] ELSE 0) + WeightSum(codes \ {c})

\* The conditions dict with the flag of condition c set to 1.
WithCondition(conditions, c) ==
    [k \in DOMAIN conditions \cup {c} |-> IF k = c THEN 1 ELSE conditions[k]]

\* The conditions dict without the key c.
WithoutCondition(conditions, c) == [k \in DOMAIN conditions \ {c} |-> conditions[k]]

ScoreCallDone == args.kind = "conditions" /\ last.op = "calculate_hcc_score"
MapCallDone == args.kind = "conditions" /\ last.op = "map_conditions_to_hcc"
MemberCallDone == args.kind = "member" /\ last.op = "calculate_member_risk_score"

\* The adjustment calculate_hcc_score looks up for the caller's gender and age (which key
\* that is, is the subject of C7 and C8).
AdjustmentUsed == age_sex_coeff_of(gender_key_of(args.gender), age_group_of(args.age))

\* C1: whenever calculate_hcc_score has returned, its result is max(0, S + adj), S the sum
\* of the weights of the distinct codes triggered by the truthy conditions, each once.
C1_ScoreIsFlooredDistinctSum ==
    ScoreCallDone =>
        /\ last.raised = "none"
        /\ last.result = Max(0, WeightSum(TriggeredCodes(args.conditions)) + AdjustmentUsed)

\* C1 witness: diabetes and diabetes_complications both present (they share HCC_18 and
\* HCC_19) scored 0.5 + 1.2 + 1.5 = 3.2 under the table of __init__.
C1_Witness ==
    /\ ScoreCallDone
    /\ args.conditions = [diabetes |-> 1, diabetes_complications |-> 1]
    /\ age_sex_table.kind = "literal"
    /\ last.result = 32

\* C2: the result of calculate_hcc_score and of calculate_member_risk_score is never
\* negative, and neither raises.
C2_ScoreNonNegative ==
    (ScoreCallDone \/ MemberCallDone) => (last.raised = "none" /\ last.result >= 0)

\* C2 witness: a call whose weights plus adjustment are below zero returned 0.
C2_Witness ==
    /\ ScoreCallDone
    /\ WeightSum(TriggeredCodes(args.conditions)) + AdjustmentUsed < 0
    /\ WeightSum(TriggeredCodes(args.conditions)) > 0
    /\ last.result = 0

\* C3: monotonicity.  After calculate_hcc_score(C, age, gender) returned r, the score of C
\* with any condition that is not truthy in C set present is at least r.
C3_AddingConditionNeverDecreases ==
    ScoreCallDone =>
        \A c \in DOMAIN Catalog \cup InputNames :
            (c \notin DOMAIN args.conditions \/ args.conditions[c] = 0) =>
                LET more == calculate_hcc_score(WithCondition(args.conditions, c), args.age, args.gender)
                IN  more.raised = "none" /\ more.value >= last.result

\* C3 witness: a call with a positive score to which some absent condition adds, and
\* another absent condition adds nothing.
C3_Witness ==
    /\ ScoreCallDone
    /\ last.result > 0
    /\ \E c \in DOMAIN Catalog \ DOMAIN args.conditions :
          calculate_hcc_score(WithCondition(args.conditions, c), args.age, args.gender).value > last.result
    /\ \E c \in DOMAIN Catalog \ DOMAIN args.conditions :
          calculate_hcc_score(WithCondition(args.conditions, c), args.age, args.gender).value = last.result

\* C4: de-duplication law.  When calculate_hcc_score has returned for a dict with exactly
\* two truthy catalog conditions A and B, the result is at most weight(A's categories) +
\* weight(B's categories) + adjustment, and equals it exactly when the category sets of A
\* and B are disjoint.
C4_DedupLaw ==
    ScoreCallDone =>
        \A A \in TruthyConditions(args.conditions), B \in TruthyConditions(args.conditions) :
            (A /= B /\ TruthyConditions(args.conditions) = {A, B}) =>
                LET separately == WeightSum(CategoriesOf(A)) + WeightSum(CategoriesOf(B)) + AdjustmentUsed
                IN  /\ last.result <= separately
                    /\ (last.result = separately) <=> (CategoriesOf(A) \cap CategoriesOf(B) = {})

\* The law of C4 on the catalog as __init__ builds it: it holds as long as no caller has
\* changed a list of the catalog through get_condition_mapping.
DedupLawOnConstructedCatalog == (Catalog = HccMappingLiteral) => C4_DedupLaw

\* C5: whenever map_conditions_to_hcc has returned, the returned list holds exactly the
\* codes of the catalog conditions whose flag is truthy, and no code twice.
C5_MapIsUnionWithoutDuplicates ==
    MapCallDone =>
        /\ last.raised = "none"
        /\ ToSet(last.result) = TriggeredCodes(args.conditions)
        /\ Len(last.result) = Cardinality(ToSet(last.result))

\* C5 witness: diabetes and diabetes_complications, which share two codes, mapped to the
\* three codes HCC_17, HCC_18, HCC_19.
C5_Witness ==
    /\ MapCallDone
    /\ args.conditions = [diabetes |-> 1, diabetes_complications |-> 1]
    /\ Len(last.result) = 3

\* C6: a condition name the catalog lacks changes nothing and raises nothing: a call on a
\* dict that holds such names returns what the call on the dict without them returns.
C6_UnknownNamesIgnored ==
    (MapCallDone \/ ScoreCallDone) =>
        /\ last.raised = "none"
        /\ \A u \in DOMAIN args.conditions \ DOMAIN Catalog :
              LET without == WithoutCondition(args.conditions, u)
              IN  IF last.op = "map_conditions_to_hcc"
                  THEN /\ map_conditions_to_hcc(without).raised = "none"
                       /\ ToSet(last.result) = ToSet(map_conditions_to_hcc(without).value)
                  ELSE /\ calculate_hcc_score(without, args.age, args.gender).raised = "none"
                       /\ last.result = calculate_hcc_score(without, args.age, args.gender).value

\* C6 witness: {diabetes: 1, mystery: 1} scored like {diabetes: 1}, 1.2 + 1.5 = 2.7.
C6_Witness ==
    /\ ScoreCallDone
    /\ args.conditions = [diabetes |-> 1, mystery |-> 1]
    /\ Catalog = HccMappingLiteral
    /\ last.raised = "none"
    /\ last.result = 27

\* The table entry of (gender, age), gender lower-cased: 0 when the table lacks the key.
EntryFor(gender, age) == age_sex_coeff_of(gender_key_of(gender), age)

\* C7: the age is clipped to [0, 100] before the lookup: for an age below 0 the adjustment
\* is the table entry of age 0, for an age above 100 the table entry of age 100.
C7_AgeClippedToTable ==
    ScoreCallDone =>
        /\ args.age < 0 =>
              last.result = Max(0, WeightSum(TriggeredCodes(args.conditions)) + EntryFor(args.gender, 0))
        /\ args.age > 100 =>
              last.result = Max(0, WeightSum(TriggeredCodes(args.conditions)) + EntryFor(args.gender, 100))

\* The half of C7 the code does: an age above 100 uses the table entry of age 100.
AgeAboveTableUsesLastEntry ==
    (ScoreCallDone /\ args.age > 100) =>
        last.result = Max(0, WeightSum(TriggeredCodes(args.conditions)) + EntryFor(args.gender, 100))

\* Two spellings of one gender that differ in letter case only.
SameGenderSpelling(g1, g2) ==
    \E spellings \in {{Str_male, Str_Male}, {Str_female, Str_FEMALE}} :
        g1 \in spellings /\ g2 \in spellings

\* No key of the table has this gender, in whatever letter case it is written.
GenderNotInTable(gender) ==
    \A k \in DOMAIN age_sex_coefficients :
        ~(k[1] = gender \/ SameGenderSpelling(k[1], gender))

\* C8: the lookup never raises and ignores letter case: every spelling of the caller's
\* gender scores the same, and a gender that is None, empty or in no key of the table
\* gets adjustment 0.
C8_LookupTotalAndCaseInsensitive ==
    ScoreCallDone =>
        /\ last.raised = "none"
        /\ \A g \in InputGenders :
              SameGenderSpelling(g, args.gender) =>
                  calculate_hcc_score(args.conditions, args.age, g) = [raised |-> "none", value |-> last.result]
        /\ (args.gender \in {NoneVal, Str_empty} \/ GenderNotInTable(args.gender)) =>
              last.result = Max(0, WeightSum(TriggeredCodes(args.conditions)))

\* C8 witness: 'Male' at age 65 with no condition scored the entry of ('male', 65), 0.3.
C8_Witness ==
    /\ ScoreCallDone
    /\ args.gender = Str_Male /\ args.age = 65 /\ args.conditions = EmptyDict
    /\ <<Str_male, 65>> \in DOMAIN age_sex_coefficients
    /\ age_sex_coefficients[<<Str_male, 65>>] = 3
    /\ last.result = 3

\* C9: the catalog and the weight table are read-only: whatever callers did, with the
\* dicts the getters returned too, they equal the tables __init__ built.
C9_CatalogReadOnly == Catalog = HccMappingLiteral /\ hcc_weights = HccWeightsLiteral

\* C10: the three scoring calls have no side effect: every step that is such a call (the
\* steps that leave last.op a scoring call) leaves the mapper's catalog, weights and
\* adjustment table and the caller's arguments as they were.  The result being computed
\* from these alone, the same call made again returns the same result.
C10_ScoringCallsHaveNoSideEffects ==
    [][last'.op \in ScoringOps => (mapper' = mapper /\ args' = args)]_vars

\* C10 witness: a scoring call made after a caller appended to a list of the catalog
\* returned a positive score.
C10_Witness ==
    /\ last.op \in ScoringOps
    /\ last.op /= "map_conditions_to_hcc"
    /\ Catalog /= HccMappingLiteral
    /\ last.result > 0

\* ======================================================================
\* Part 2: ClaimsProcessor (src/utils/data_processing.py).
\*
\* A DataFrame is [columns, rows]: the set of its column names and the
\* sequence of its rows, each row [idx, cells] with its index label and
\* its cells, a function from the columns.  A cell is a number, a str or
\* a missing value (NaN).  Costs are held as integers; the quotient of
\* two numbers is held as the pair of them, so no rounding is modelled.
\* ======================================================================
Num(n) == [t |-> "num", v |-> n]
Text(s) == [t |-> "str", s |-> s]
NaN == [t |-> "nan"]
\* The float results of a / b: the quotient, and what numpy gives for b = 0.
Quot(a, b) == [t |-> "quot", num |-> a, den |-> b]
PosInf == [t |-> "inf", sign |-> 1]
NegInf == [t |-> "inf", sign |-> -1]

IsNum(cell) == cell.t = "num"

\* The characters of the decimal digits, and of white space.
DigitChars == <<"0", "1", "2", "3", "4", "5", "6", "7", "8", "9">>
WhiteSpace == {" ", "\t", "\n"}

DigitValue(ch) == (CHOOSE i \in DOMAIN DigitChars : DigitChars[i] = ch) - 1

RECURSIVE IntStr(_)
\* str(n) of an int.
IntStr(n) ==
    IF n < 0 THEN <<"-">> \o IntStr(-n)
    ELSE IF n < 10 THEN <<DigitChars[n + 1]>>
    ELSE IntStr(n \div 10) \o <<DigitChars[(n % 10) + 1]>>

RECURSIVE StripLeft(_)
StripLeft(s) == IF s /= <<>> /\ Head(s) \in WhiteSpace THEN StripLeft(Tail(s)) ELSE s

RECURSIVE StripRight(_)
StripRight(s) ==
    IF s /= <<>> /\ s[Len(s)] \in WhiteSpace THEN StripRight(SubSeq(s, 1, Len(s) - 1)) ELSE s

\* str.strip()
Strip(s) == StripRight(StripLeft(s))

\* The strings pd.to_numeric reads as an integer: digits, after an optional sign, with
\* white space around them allowed.
IsNumeral(s) ==
    LET body == IF Strip(s) /= <<>> /\ Head(Strip(s)) = "-" THEN Tail(Strip(s)) ELSE Strip(s)
    IN  body /= <<>> /\ \A i \in DOMAIN body : body[i] \in ToSet(DigitChars)

RECURSIVE DigitsValue(_)
DigitsValue(s) ==
    IF s = <<>> THEN 0 ELSE 10 * DigitsValue(SubSeq(s, 1, Len(s) - 1)) + DigitValue(s[Len(s)])

NumeralValue(s) ==
    IF Head(Strip(s)) = "-" THEN 0 - DigitsValue(Tail(Strip(s))) ELSE DigitsValue(Strip(s))

\* pd.to_numeric(column, errors='coerce'), cell by cell: a number is kept, a str that
\* reads as a number becomes it, anything else becomes NaN.
to_numeric(cell) ==
    IF cell.t = "num" THEN cell
    ELSE IF cell.t = "str" /\ IsNumeral(cell.s) THEN Num(NumeralValue(cell.s))
    ELSE NaN

\* The dtype of a column of a frame: object when it holds a str, float64 when it holds
\* numbers and a missing value, int64 when it holds numbers only.
column_dtype(df, col) ==
    IF \E i \in DOMAIN df.rows : df.rows[i].cells[col].t = "str" THEN "object"
    ELSE IF \E i \in DOMAIN df.rows : df.rows[i].cells[col].t = "nan" THEN "float64"
    ELSE "int64"

\* column.astype(str), cell by cell: str(x) of the cell in a column of the given dtype.
astype_str(cell, dtype) ==
    IF cell.t = "str" THEN cell.s
    ELSE IF cell.t = "nan" THEN Str_nan
    ELSE IF dtype = "float64" THEN IntStr(cell.v) \o <<".", "0">>
    ELSE IntStr(cell.v)

\* gender_mapping of _clean_data, and .map(gender_mapping).fillna('unknown').
gender_mapping ==
    (<<"m">> :> Str_male) @@ (<<"f">> :> Str_female) @@ (Str_male :> Str_male)
    @@ (Str_female :> Str_female) @@ (<<"1">> :> Str_male) @@ (<<"0">> :> Str_female)

map_gender(s) == IF s \in DOMAIN gender_mapping THEN gender_mapping[s] ELSE Str_unknown

\* column >= n and column <= n, cell by cell: a comparison with NaN is False.
cell_ge(cell, n) == cell.t = "num" /\ cell.v >= n
cell_le(cell, n) == cell.t = "num" /\ cell.v <= n
cell_gt(cell, n) == cell.t = "num" /\ cell.v > n

\* ------------------------------------------------------------ ClaimsProcessor()
required_columns == <<"member_id", "age", "gender", "total_cost", "total_claims">>
optional_columns ==
    <<"diabetes", "hypertension", "heart_disease", "copd", "cancer", "kidney_disease",
      "mental_health">>

RECURSIVE KeepAt(_, _)
\* frame[mask]: the rows at the positions of S, in their order.
KeepAt(rows, S) ==
    IF rows = <<>> THEN <<>>
    ELSE LET n == Len(rows)
             front == KeepAt(SubSeq(rows, 1, n - 1), S)
         IN  IF n \in S THEN Append(front, rows[n]) ELSE front

\* df.drop_duplicates(): of the rows with equal cells the first one stays.
drop_duplicates(df) ==
    [df EXCEPT !.rows =
        KeepAt(df.rows, {i \in DOMAIN df.rows :
                            \A j \in 1..(i - 1) : df.rows[j].cells /= df.rows[i].cells})]

\* ------------------------------------------------------------------ _clean_data
\* The cost filter without its test (a faulty variant of cost_kept).
cost_kept_any(cell) == TRUE

\* (df['age'] >= 0) & (df['age'] <= 120)
age_kept(cell) == cell_ge(cell, 0) /\ cell_le(cell, 120)
\* df['total_cost'] >= 0
cost_kept(cell) == cell_ge(cell, 0)
\* df['total_claims'] >= 0
claims_kept(cell) == cell_ge(cell, 0)

\* pd.to_numeric(...).fillna(0), then (... > 0).astype(int)
binary_flag(cell) == Num(IF cell_gt(to_numeric(cell), 0) THEN 1 ELSE 0)

\* The assignments of _clean_data to the columns of one row; dtype_of gives the dtype the
\* column has in the frame passed in (row filters do not change a dtype).
clean_cells(cells, dtype_of) ==
    [col \in DOMAIN cells |->
        IF col = "member_id" THEN Text(Strip(astype_str(cells[col], dtype_of[col])))
        ELSE IF col \in {"age", "total_cost", "total_claims"} THEN to_numeric(cells[col])
        ELSE IF col = "gender"
             THEN Text(map_gender(Strip(Lower(astype_str(cells[col], dtype_of[col])))))
        ELSE IF col \in ToSet(condition_columns) THEN binary_flag(cells[col])
        ELSE cells[col]]

\* The three row filters of _clean_data on a row whose cells are cleaned.
row_kept(cells) ==
    /\ "age" \in DOMAIN cells => age_kept(cells["age"])
    /\ "total_cost" \in DOMAIN cells => cost_kept(cells["total_cost"])
    /\ "total_claims" \in DOMAIN cells => claims_kept(cells["total_claims"])

\* _clean_data(df).  Every assignment works on one row alone and a row filter only drops
\* rows, so cleaning the cells of every row and then filtering gives what the method's
\* interleaving of the two gives.
clean_data(df) ==
    LET unique == drop_duplicates(df)
        dtype_of == [col \in df.columns |-> column_dtype(df, col)]
        cleaned == [i \in DOMAIN unique.rows |->
                       [idx |-> unique.rows[i].idx,
                        cells |-> clean_cells(unique.rows[i].cells, dtype_of)]]
    IN  [columns |-> df.columns,
         rows |-> KeepAt(cleaned, {i \in DOMAIN cleaned : row_kept(cleaned[i].cells)})]

\* -------------------------------------------------------- _add_derived_features
\* df['total_cost'] / df['total_claims'], cell by cell, as numpy divides floats.
divide(a, b) ==
    IF ~IsNum(a) \/ ~IsNum(b) THEN NaN
    ELSE IF b.v /= 0 THEN Quot(a.v, b.v)
    ELSE IF a.v > 0 THEN PosInf
    ELSE IF a.v < 0 THEN NegInf
    ELSE NaN

\* The quotient without np.where (a faulty variant of cost_per_claim).
cost_per_claim_unguarded(cost, claims) == divide(cost, claims)

\* np.where(df['total_claims'] > 0, df['total_cost'] / df['total_claims'], 0)
cost_per_claim(cost, claims) == IF cell_gt(claims, 0) THEN divide(cost, claims) ELSE Num(0)

\* A value of the categorical column age_group.
Label(l) == [t |-> "cat", label |-> l]

\* pd.cut(df['age'], bins=[0, 18, 35, 50, 65, 100], labels=[...], include_lowest=True):
\* the bins are closed on the right (pd.cut's default), the first one on the left too;
\* an age in no bin gets NaN.
age_bins == <<0, 18, 35, 50, 65, 100>>
age_labels == <<"0-17", "18-34", "35-49", "50-64", "65+">>

cut(cell) ==
    IF ~IsNum(cell) THEN NaN
    ELSE IF cell.v = age_bins[1] THEN Label(age_labels[1])
    ELSE IF \E k \in DOMAIN age_labels : age_bins[k] < cell.v /\ cell.v <= age_bins[k + 1]
         THEN Label(age_labels[CHOOSE k \in DOMAIN age_labels :
                                  age_bins[k] < cell.v /\ cell.v <= age_bins[k + 1]])
    ELSE NaN

chronic_conditions == <<"diabetes", "hypertension", "heart_disease", "copd">>
high_cost_conditions == <<"cancer", "kidney_disease", "mental_health">>

RECURSIVE row_sum(_, _)
\* df[cols].sum(axis=1) for one row: the sum of its numbers, a missing value skipped.
row_sum(cells, cols) ==
    IF cols = {} THEN 0
    ELSE LET c == CHOOSE x \in cols : TRUE
         IN  (IF IsNum(cells[c]) THEN cells[c].v ELSE 0) + row_sum(cells, cols \ {c})

\* The numbers of a column, missing values left out, in the order of the rows.
column_numbers(df, col) ==
    LET present == KeepAt(df.rows, {i \in DOMAIN df.rows : IsNum(df.rows[i].cells[col])})
    IN  [i \in DOMAIN present |-> present[i].cells[col].v]

RECURSIVE sorted(_)
\* The numbers of a sequence in ascending order.
sorted(s) ==
    IF s = <<>> THEN <<>>
    ELSE LET i == CHOOSE k \in DOMAIN s : \A j \in DOMAIN s : s[k] <= s[j]
         IN  <<s[i]>> \o sorted(SubSeq(s, 1, i - 1) \o SubSeq(s, i + 1, Len(s)))

\* Five times df[col].quantile(0.8) (linear interpolation between the two neighbours of
\* position 0.8 * (n - 1) in the sorted column); NaN for a column without numbers.
quantile_80_times_5(df, col) ==
    LET v == sorted(column_numbers(df, col))
        n == Len(v)
        lo == (4 * (n - 1)) \div 5
        r == (4 * (n - 1)) % 5
    IN  IF n = 0 THEN NaN
        ELSE IF r = 0 THEN Num(5 * v[lo + 1])
        ELSE Num(5 * v[lo + 1] + r * (v[lo + 2] - v[lo + 1]))

\* (df[col] >= threshold).astype(int), the threshold given five-fold.
at_least(cell, threshold5) ==
    Num(IF IsNum(cell) /\ IsNum(threshold5) /\ 5 * cell.v >= threshold5.v THEN 1 ELSE 0)

\* The derived columns _add_derived_features adds to a frame with the given columns.
derived_columns(columns) ==
    (IF {"total_cost", "total_claims"} \subseteq columns THEN {"cost_per_claim"} ELSE {})
    \cup (IF "age" \in columns THEN {"age_group", "elderly", "young_adult"} ELSE {})
    \cup {"chronic_condition_count", "high_cost_condition_count", "total_condition_count"}
    \cup (IF "total_claims" \in columns THEN {"high_utilizer"} ELSE {})
    \cup (IF "total_cost" \in columns THEN {"high_cost_member"} ELSE {})

\* The value of a derived column for one row of df.
derived_cell(df, cells, col) ==
    LET available_chronic == ToSet(chronic_conditions) \cap df.columns
        available_high_cost == ToSet(high_cost_conditions) \cap df.columns
    IN  CASE col = "cost_per_claim" -> cost_per_claim(cells["total_cost"], cells["total_claims"])
          [] col = "age_group" -> cut(cells["age"])
          [] col = "chronic_condition_count" -> Num(row_sum(cells, available_chronic))
          [] col = "high_cost_condition_count" -> Num(row_sum(cells, available_high_cost))
          [] col = "total_condition_count" ->
                 Num(row_sum(cells, available_chronic \cup available_high_cost))
          [] col = "high_utilizer" ->
                 at_least(cells["total_claims"], quantile_80_times_5(df, "total_claims"))
          [] col = "high_cost_member" ->
                 at_least(cells["total_cost"], quantile_80_times_5(df, "total_cost"))
          [] col = "elderly" -> Num(IF cell_ge(cells["age"], 65) THEN 1 ELSE 0)
          [] col = "young_adult" ->
                 Num(IF cell_ge(cells["age"], 18) /\ cell_le(cells["age"], 35) THEN 1 ELSE 0)

\* _add_derived_features that returns a frame without rows as it is (a faulty variant
\* of add_derived_features): the columns of its result depend on the rows.
add_derived_features_when_rows(df) ==
    IF df.rows = <<>> THEN df
    ELSE [columns |-> df.columns \cup derived_columns(df.columns),
          rows |-> [i \in DOMAIN df.rows |->
                      [idx |-> df.rows[i].idx,
                       cells |-> [col \in df.columns \cup derived_columns(df.columns) |->
                                     IF col \in derived_columns(df.columns)
                                     THEN derived_cell(df, df.rows[i].cells, col)
                                     ELSE df.rows[i].cells[col]]]]]

\* _add_derived_features(df) on a frame of numbers.
add_derived_features(df) ==
    [columns |-> df.columns \cup derived_columns(df.columns),
     rows |-> [i \in DOMAIN df.rows |->
                 [idx |-> df.rows[i].idx,
                  cells |-> [col \in df.columns \cup derived_columns(df.columns) |->
                                IF col \in derived_columns(df.columns)
                                THEN derived_cell(df, df.rows[i].cells, col)
                                ELSE df.rows[i].cells[col]]]]]

\* ------------------------------------------------------- _handle_missing_values
\* fillna(0) in the columns of a numeric dtype and fillna('unknown') in those of dtype
\* object; in the frame process_claims passes, the object columns are member_id and
\* gender, and age_group is categorical, which neither loop touches.
handle_missing_values(df) ==
    [df EXCEPT !.rows =
        [i \in DOMAIN df.rows |->
            [df.rows[i] EXCEPT !.cells =
                [col \in df.columns |->
                    IF df.rows[i].cells[col].t /= "nan" \/ col = "age_group"
                    THEN df.rows[i].cells[col]
                    ELSE IF col \in {"member_id", "gender"} THEN Text(Str_unknown)
                    ELSE Num(0)]]]]

\* --------------------------------------------------------------- process_claims
missing_columns(df) == {col \in ToSet(required_columns) : col \notin df.columns}

\* process_claims that cleans before it validates the columns (a faulty variant of
\* process_claims): a frame without a required column is cleaned and raises later, where
\* the column is first read.
process_claims_validating_late(df) ==
    IF missing_columns(df) /= {}
    THEN [raised |-> "KeyError", cleaned |-> TRUE]
    ELSE [raised |-> "none", cleaned |-> TRUE,
          value |-> handle_missing_values(add_derived_features(clean_data(df)))]

\* process_claims(df): [raised, cleaned, value]; cleaned tells whether _clean_data ran.
\* _validate_data_quality only logs, and the copy made first keeps the caller's frame.
process_claims(df) ==
    IF missing_columns(df) /= {}
    THEN [raised |-> "ValueError", cleaned |-> FALSE]
    ELSE [raised |-> "none", cleaned |-> TRUE,
          value |-> handle_missing_values(add_derived_features(clean_data(df)))]

\* ------------------------------------------------- the frames callers pass
\* Largest number of rows of a frame.
MaxRows == 2

Str_A == <<"A">>
Str_B == <<"B">>

\* The optional columns the frames below hold: two chronic ones and one high-cost one.
OptionalUsed == {"diabetes", "hypertension", "cancer"}

RowCells(member_id, age, gender, total_cost, total_claims, diabetes, hypertension, cancer) ==
    [member_id |-> member_id, age |-> age, gender |-> gender, total_cost |-> total_cost,
     total_claims |-> total_claims, diabetes |-> diabetes, hypertension |-> hypertension,
     cancer |-> cancer]

\* A well-formed record, and records that differ from it in one kind of value.
BaseCells == RowCells(Text(Str_A), Num(40), Text(Str_male), Num(100), Num(2), Num(1), Num(0), Num(0))

AgeCells ==
    {Num(a) : a \in {-1, 0, 17, 18, 19, 34, 35, 36, 49, 50, 51, 64, 65, 66, 100, 101, 120, 121}}
    \cup {NaN, Text(<<"a", "b", "c">>), Text(<<"1", "8">>)}

CostCells == {Num(-5), Num(0), Num(7), Num(100), NaN, Text(<<"a", "b", "c">>)}
ClaimsCells == {Num(-1), Num(0), Num(2), Num(3), NaN, Text(<<"x">>)}

GenderCells ==
    {Text(<<"M">>), Text(Str_male), Text(<<" ", "M", "a", "l", "e", " ">>), Text(<<"F">>),
     Text(Str_female), Text(<<"x">>), NaN, Num(1), Num(0)}

MemberIdCells == {Text(Str_A), Text(<<" ", "A", " ">>), Text(Str_B), Num(7)}

FlagCells == {Num(0), Num(1), Num(2), Num(-1), NaN, Text(<<"y", "e", "s">>)}

TargetCells ==
    {[BaseCells EXCEPT !.age = a] : a \in AgeCells}
    \cup {[BaseCells EXCEPT !.total_cost = c, !.total_claims = n] : c \in CostCells, n \in ClaimsCells}
    \cup {[BaseCells EXCEPT !.gender = g] : g \in GenderCells}
    \cup {[BaseCells EXCEPT !.member_id = m] : m \in MemberIdCells}
    \cup {[BaseCells EXCEPT !.diabetes = d, !.cancer = c] : d \in FlagCells, c \in {Num(0), Num(3)}}

\* The records that share a batch with a target: a copy of the well-formed record, a
\* record of a costly older member, and a record with a negative cost and no gender.
CompanionCells ==
    {BaseCells,
     RowCells(Text(Str_B), Num(70), Text(Str_female), Num(1000), Num(10), Num(1), Num(1), Num(1)),
     RowCells(Text(Str_B), Num(30), NaN, Num(-5), Num(1), Num(0), Num(0), Num(0))}

\* The sequences of at most n companions.
CompanionSeqs(n) == UNION {[1..k -> CompanionCells] : k \in 0..n}

\* A frame of the given columns whose rows hold the given cells, indexed 0, 1, ...
FrameOf(columns, cellseq) ==
    [columns |-> columns,
     rows |-> [i \in DOMAIN cellseq |->
                 [idx |-> i - 1, cells |-> [col \in columns |-> cellseq[i][col]]]]]

AllColumns == ToSet(required_columns) \cup OptionalUsed

\* The column sets of the frames: every required column with any optional ones, and
\* those with one required column missing.
ColumnSets ==
    {ToSet(required_columns) \cup opt : opt \in SUBSET OptionalUsed}
    \cup {(ToSet(required_columns) \ {c}) \cup opt :
             c \in ToSet(required_columns), opt \in {{}, OptionalUsed}}

\* Frames of every column: a target before or after its companions.  Frames of fewer
\* columns: the well-formed record or a record of another age, with its companions.
Frames ==
    {FrameOf(AllColumns, <<t>> \o cs) : t \in TargetCells, cs \in CompanionSeqs(MaxRows - 1)}
    \cup {FrameOf(AllColumns, cs \o <<t>>) : t \in TargetCells, cs \in CompanionSeqs(MaxRows - 1)}
    \cup {FrameOf(AllColumns, <<>>)}
    \cup {FrameOf(columns, <<t>> \o cs) :
             columns \in ColumnSets, t \in {BaseCells, [BaseCells EXCEPT !.age = Num(66)]},
             cs \in CompanionSeqs(MaxRows - 1)}

FrameArgs == {[kind |-> "frame", df |-> f] : f \in Frames}

\* The columns whose cells the arithmetic of _add_derived_features reads.
NumericColumns == {"age", "total_cost", "total_claims"} \cup ToSet(optional_columns)

\* A frame of numbers: no cell of a numeric column is a str.
IsNumericFrame(df) ==
    \A i \in DOMAIN df.rows : \A col \in df.columns \cap NumericColumns :
        df.rows[i].cells[col].t /= "str"

NoFrame == [columns |-> {}, rows |-> <<>>]

\* ---------------------------------------------------------------- actions
\* A faulty variant of ProcessClaims: the steps work on the frame object of the caller
\* (no copy, rows dropped and columns assigned in place).
ProcessClaimsInPlace ==
    /\ args.kind = "frame"
    /\ LET r == process_claims(args.df)
       IN  /\ last' = [op |-> "process_claims", raised |-> r.raised, cleaned |-> r.cleaned,
                       result |-> IF r.raised = "none" THEN r.value ELSE NoFrame]
           /\ args' = IF r.raised = "none" THEN [args EXCEPT !.df = r.value] ELSE args
    /\ UNCHANGED <<mapper, service>>

\* A call of process_claims(df), where args.df is the frame object of the caller. The
\* steps work on processed_df = df.copy(), a frame object of its own, so every assignment
\* of a column goes to the copy and the frame of the caller keeps its rows and columns,
\* also when the call raises.
ProcessClaims ==
    /\ args.kind = "frame"
    /\ LET r == process_claims(args.df)
       IN  last' = [op |-> "process_claims", raised |-> r.raised, cleaned |-> r.cleaned,
                    result |-> IF r.raised = "none" THEN r.value ELSE NoFrame]
    /\ UNCHANGED <<mapper, args, service>>

\* A call of _clean_data(df), as the tests call it. Its first statement rebinds df to
\* the new frame drop_duplicates() returns, and the columns are assigned to that one.
CleanData ==
    /\ args.kind = "frame"
    /\ last' = [op |-> "clean_data", raised |-> "none", cleaned |-> TRUE,
                result |-> clean_data(args.df)]
    /\ UNCHANGED <<mapper, args, service>>

\* A call of _add_derived_features(df), as the tests call it: on a frame of numbers. The
\* columns are assigned to df itself, which is returned: the frame of the caller is the
\* result.
AddDerivedFeatures ==
    /\ args.kind = "frame"
    /\ IsNumericFrame(args.df)
    /\ last' = [op |-> "add_derived_features", raised |-> "none", cleaned |-> FALSE,
                result |-> add_derived_features(args.df)]
    /\ args' = [args EXCEPT !.df = add_derived_features(args.df)]
    /\ UNCHANGED <<mapper, service>>

NextClaims ==
    \/ ProcessClaims
    \/ CleanData
    \/ AddDerivedFeatures

InitClaims == InitWith(FrameArgs, {[kind |-> "literal"]})

\* A ClaimsProcessor called on any of Frames.
SpecClaims == InitClaims /\ [][NextClaims]_vars

\* ======================================================================
\* Properties of ClaimsProcessor.
\* ======================================================================
ProcessCallDone == args.kind = "frame" /\ last.op = "process_claims"
CleanCallDone == args.kind = "frame" /\ last.op = "clean_data"
FeatureCallDone == args.kind = "frame" /\ last.op = "add_derived_features"

HasRequiredColumns(df) == ToSet(required_columns) \subseteq df.columns

\* The cells of the rows of a frame.
CellsOf(df) == {df.rows[i].cells : i \in DOMAIN df.rows}

\* C11: in every frame process_claims or _add_derived_features returned, a record whose
\* total_claims is 0 has cost_per_claim exactly 0 whatever its total_cost is, a record
\* with total_claims > 0 has cost_per_claim = total_cost / total_claims, and no record
\* with a cost has an infinite or missing cost_per_claim.
C11_CostPerClaim ==
    ((ProcessCallDone \/ FeatureCallDone) /\ "cost_per_claim" \in last.result.columns) =>
        \A c \in CellsOf(last.result) :
            /\ (IsNum(c.total_claims) /\ c.total_claims.v = 0) => c.cost_per_claim = Num(0)
            /\ (IsNum(c.total_claims) /\ c.total_claims.v > 0 /\ IsNum(c.total_cost)) =>
                  /\ c.cost_per_claim.t = "quot"
                  /\ c.cost_per_claim.den /= 0
                  /\ c.cost_per_claim.num * c.total_claims.v = c.total_cost.v * c.cost_per_claim.den
            /\ IsNum(c.total_cost) => c.cost_per_claim.t \in {"num", "quot"}

\* C11 witness: process_claims returned a record with cost 7 and no claim, whose
\* cost_per_claim is 0, next to a record with 1000 / 10.
C11_Witness ==
    /\ ProcessCallDone
    /\ \E c \in CellsOf(last.result) :
          c.total_cost = Num(7) /\ c.total_claims = Num(0) /\ c.cost_per_claim = Num(0)
    /\ \E c \in CellsOf(last.result) : c.cost_per_claim = Quot(1000, 10)

\* The bucket the bins [0-17], [18-34], [35-49], [50-64], [65+] give an age.
BucketOf(age) ==
    IF age <= 17 THEN "0-17"
    ELSE IF age <= 34 THEN "18-34"
    ELSE IF age <= 49 THEN "35-49"
    ELSE IF age <= 64 THEN "50-64"
    ELSE "65+"

\* C12: every record process_claims returned has an age of 0..120 and the age bucket of
\* that age: 0..17 '0-17', 18..34 '18-34', 35..49 '35-49', 50..64 '50-64', 65 and above
\* '65+'.
C12_AgeBucket ==
    (ProcessCallDone /\ last.raised = "none") =>
        \A c \in CellsOf(last.result) :
            /\ IsNum(c.age) /\ c.age.v \in 0..120
            /\ c.age_group = Label(BucketOf(c.age.v))

\* What the code does for C12: the buckets are those of the bins closed on the right, so
\* each boundary age falls in the lower bucket, and an age above 100 has none.
AgeBucketClosedRight ==
    (ProcessCallDone /\ last.raised = "none") =>
        \A c \in CellsOf(last.result) :
            /\ IsNum(c.age) /\ c.age.v \in 0..120
            /\ c.age_group = (IF c.age.v = 0 THEN Label("0-17")
                              ELSE IF c.age.v > 100 THEN NaN
                              ELSE Label(BucketOf(c.age.v - 1)))

\* C13: process_claims raises the error of a missing column, before it cleans and
\* without a result, exactly when the frame lacks a required column; with the required
\* columns it returns, whichever optional columns the frame has.
C13_SchemaError ==
    ProcessCallDone =>
        IF HasRequiredColumns(args.df)
        THEN last.raised = "none" /\ last.result.columns /= {}
        ELSE last.raised = "ValueError" /\ ~last.cleaned /\ last.result = NoFrame

\* C13 witness: a frame without the column age, with every optional column, raised.
C13_Witness ==
    /\ ProcessCallDone
    /\ args.df.columns = AllColumns \ {"age"}
    /\ args.df.rows /= <<>>
    /\ last.raised = "ValueError"

\* process_claims returned for a frame without any optional column.
OptionalColumnsMissing ==
    /\ ProcessCallDone
    /\ args.df.columns = ToSet(required_columns)
    /\ last.raised = "none"
    /\ last.result.rows /= <<>>

\* C14: for a frame with the required columns, _clean_data and process_claims return
\* (they do not raise), and every row of the result has 0 <= age <= 120, total_cost >= 0
\* and total_claims >= 0.
C14_MalformedValuesDropped ==
    ((ProcessCallDone \/ CleanCallDone) /\ HasRequiredColumns(args.df)) =>
        /\ last.raised = "none"
        /\ \A c \in CellsOf(last.result) :
              /\ IsNum(c.age) /\ c.age.v >= 0 /\ c.age.v <= 120
              /\ IsNum(c.total_cost) /\ c.total_cost.v >= 0
              /\ IsNum(c.total_claims) /\ c.total_claims.v >= 0

\* C14 witness: of a frame with a well-formed record and one with a negative cost,
\* process_claims returned the first alone.
C14_Witness ==
    /\ ProcessCallDone
    /\ HasRequiredColumns(args.df)
    /\ Len(args.df.rows) = 2
    /\ args.df.rows[1].cells.total_cost = Num(-5)
    /\ last.raised = "none"
    /\ Len(last.result.rows) = 1
    /\ last.result.rows[1].idx = 1

\* The frame that holds the row of index label idx of df alone.
SingleRecord(df, idx) ==
    [columns |-> df.columns,
     rows |-> KeepAt(df.rows, {i \in DOMAIN df.rows : df.rows[i].idx = idx})]

\* C15: the features process_claims gives a record do not depend on the other records of
\* the batch: every row of the result of a batch call equals the one row process_claims
\* returns for that record alone.
C15_FeaturesOfRecordAlone ==
    (ProcessCallDone /\ last.raised = "none") =>
        \A i \in DOMAIN last.result.rows :
            LET alone == process_claims(SingleRecord(args.df, last.result.rows[i].idx))
            IN  /\ alone.raised = "none"
                /\ Len(alone.value.rows) = 1
                /\ alone.value.rows[1].cells = last.result.rows[i].cells

\* What the code does for C15: every column but the two percentile flags, and but the
\* gender (whose spelling as a str depends on the dtype of the whole column), is that of
\* the record alone.
BatchDependentColumns == {"high_utilizer", "high_cost_member", "gender"}

FeaturesOfRecordAloneButPercentiles ==
    (ProcessCallDone /\ last.raised = "none") =>
        \A i \in DOMAIN last.result.rows :
            LET alone == process_claims(SingleRecord(args.df, last.result.rows[i].idx))
            IN  /\ alone.raised = "none"
                /\ Len(alone.value.rows) = 1
                /\ \A col \in last.result.columns \ BatchDependentColumns :
                      alone.value.rows[1].cells[col] = last.result.rows[i].cells[col]

\* Frames with the given columns and other rows: none, one, several, well-formed and
\* malformed (0 in a column the rows have no value for).
PeerFrames(columns) ==
    {[columns |-> columns,
      rows |-> [i \in DOMAIN cs |->
                  [idx |-> i - 1,
                   cells |-> [col \in columns |->
                                 IF col \in DOMAIN cs[i] THEN cs[i][col] ELSE Num(0)]]]] :
        cs \in CompanionSeqs(MaxRows)}

\* C21: the columns of the frame process_claims returns depend on the columns of the
\* input alone, never on its values or on the number of its rows: process_claims of any
\* other frame with the same columns raises when this call raised, and else returns a
\* frame with exactly the columns this call returned.
C21_ColumnsFromColumnsOnly ==
    ProcessCallDone =>
        \A peer \in PeerFrames(args.df.columns) :
            LET r == process_claims(peer)
            IN  /\ r.raised = last.raised
                /\ last.raised = "none" => r.value.columns = last.result.columns

\* C21 witness: process_claims dropped the only row of a frame, and the frame without
\* rows it returned has the derived columns.
C21_Witness ==
    /\ ProcessCallDone
    /\ last.raised = "none"
    /\ Len(args.df.rows) = 1
    /\ last.result.rows = <<>>
    /\ {"cost_per_claim", "age_group", "high_utilizer"} \subseteq last.result.columns
    /\ "cost_per_claim" \notin args.df.columns

\* C22: a call of process_claims leaves the frame of the caller as it was, rows and
\* columns, whether it returns or raises.
C22_CallerFrameUnchanged ==
    [][last'.op = "process_claims" => args' = args]_vars

\* C22 witness: process_claims returned a frame with other rows and other columns than
\* the frame of the caller, which has a malformed row and no derived column.
C22_Witness ==
    /\ ProcessCallDone
    /\ last.raised = "none"
    /\ Len(last.result.rows) < Len(args.df.rows)
    /\ args.df.columns \cap derived_columns(args.df.columns) = {}
    /\ last.result.columns /= args.df.columns

\* _add_derived_features, called on its own, does assign to the frame of the caller.
DerivedFeaturesInPlace ==
    FeatureCallDone => args.df = last.result

\* No two rows of the frame hold the same values.
NoIdenticalRows(df) ==
    \A i, j \in DOMAIN df.rows : i /= j => df.rows[i].cells /= df.rows[j].cells

\* C24: the frame _clean_data returns has no two identical rows: two rows of the input
\* whose cleaned values are the same (they differ in the whitespace of member_id, in the
\* spelling of gender or in the value of a flag above 0) do not both survive.
C24_NoDuplicateCleanedRows ==
    CleanCallDone => NoIdenticalRows(last.result)

\* What the code does for C24: the duplicates are dropped on the values as given, so the
\* rows of the result are those that survive of an input without identical rows.
NoDuplicateRawRows ==
    CleanCallDone =>
        \A i, j \in DOMAIN last.result.rows :
            i /= j =>
                \E k, l \in DOMAIN args.df.rows :
                    /\ args.df.rows[k].idx = last.result.rows[i].idx
                    /\ args.df.rows[l].idx = last.result.rows[j].idx
                    /\ args.df.rows[k].cells /= args.df.rows[l].cells

\* _clean_data dropped the second of two rows that were identical as given.
RawDuplicateDropped ==
    /\ CleanCallDone
    /\ Len(args.df.rows) = 2
    /\ args.df.rows[1].cells = args.df.rows[2].cells
    /\ Len(last.result.rows) = 1
    /\ last.result.rows[1].idx = 0

\* C25: in every frame process_claims or _add_derived_features returned, elderly is 1
\* exactly for the records of age bucket '65+', and young_adult is 1 only for records of
\* age bucket '18-34'.
C25_AgeFeaturesAgree ==
    ((ProcessCallDone \/ FeatureCallDone) /\ "age_group" \in last.result.columns) =>
        \A c \in CellsOf(last.result) :
            /\ c.elderly = Num(1) <=> c.age_group = Label("65+")
            /\ c.young_adult = Num(1) => c.age_group = Label("18-34")

\* What the code does for C25: the flags are those of the ages 65 and above and 18..35,
\* and they agree with the bucket for every age but 18, 65 and those above 100.
AgeFlagsOfAge ==
    ((ProcessCallDone \/ FeatureCallDone) /\ "age_group" \in last.result.columns) =>
        \A c \in CellsOf(last.result) :
            /\ c.elderly = Num(1) <=> (IsNum(c.age) /\ c.age.v >= 65)
            /\ c.young_adult = Num(1) <=> (IsNum(c.age) /\ c.age.v >= 18 /\ c.age.v <= 35)
            /\ (IsNum(c.age) /\ c.age.v \notin {18, 65} /\ c.age.v <= 100) =>
                  /\ c.elderly = Num(1) <=> c.age_group = Label("65+")
                  /\ c.young_adult = Num(1) => c.age_group = Label("18-34")

\* C26: _clean_data is idempotent: cleaning the frame it returned returns that frame,
\* the same rows with the same values.
C26_CleanDataIdempotent ==
    CleanCallDone => clean_data(last.result) = last.result

\* What the code does for C26: cleaning again returns the same frame whenever the first
\* result has no two identical rows, and always leaves every value of the rows it keeps.
CleanDataIdempotentOnValues ==
    CleanCallDone =>
        LET again == clean_data(last.result)
        IN  /\ NoIdenticalRows(last.result) => again = last.result
            /\ \A i \in DOMAIN again.rows :
                  \E j \in DOMAIN last.result.rows : again.rows[i] = last.result.rows[j]

\* ======================================================================
\* Part 3: the service (src/main.py).
\*
\* The service process holds risk_model and cost_driver_model (lines 40-41)
\* and reads and writes three files.  The modules that define RiskAdjustmentModel,
\* CostDriverAnalysis and generate_sample_data are not among the sources; their
\* methods are modelled as the specification describes them (sections 4.3 and
\* 4.4) and as the handlers and the tests use them.  A risk score is
\* held in hundredths (0.7 is 70).  last is the response of the last request:
\* its HTTP status and its body.
\* ======================================================================
\* Largest number of training runs whose artifacts are told apart.
MaxTrainings == 3

\* The members a stored dataset may hold, and a member id no dataset holds.
MemberIds == {"A", "B"}
RequestedIds == MemberIds \cup {"Z"}

\* The smallest number of records train accepts.
MinTrainingRecords == 20

\* The contents of data/processed_claims.csv: the number of its records and the members
\* among them.
Dataset(n, members) == [exists |-> TRUE, records |-> n, members |-> members]

\* The fitted estimators training may select: what each gives, before clipping, for the
\* record of a member.
Estimators ==
    {[A |-> -30, B |-> 40], [A |-> 41, B |-> 70], [A |-> 71, B |-> 0]}

\* A trained artifact: the training run it comes from (its timestamp) and its estimator.
Artifact(run, estimator) == [trained |-> TRUE, run |-> run, estimator |-> estimator]

\* os.path.exists(path)
exists(file) == file.exists

\* The training run of the artifact a model object holds, 0 when it holds none.
RunOf(model) == IF model.trained THEN model.run ELSE 0

\* --------------------------------------------------- RiskAdjustmentModel
\* train(df): raises below the minimum sample size and leaves the model as it was;
\* otherwise the model becomes the new artifact, one of `fits`.
train(model, df, fits) ==
    IF df.records < MinTrainingRecords
    THEN {[raised |-> "InsufficientDataError", model |-> model]}
    ELSE {[raised |-> "none", model |-> a] : a \in fits}

\* save_model(path) writes the artifact of the model; load_model(path) reads it back.
save_model(model) == [exists |-> TRUE, artifact |-> model]
load_model(file) == file.artifact

\* predict_member_risk without the clipping of negative outputs (a faulty variant of
\* predict_member_risk).
predict_member_risk_unclipped(model, member_id) ==
    IF ~model.trained THEN [raised |-> "NotTrainedError"]
    ELSE [raised |-> "none", value |-> model.estimator[member_id]]

\* predict_member_risk(member_data): raises when nothing is trained; otherwise the
\* output of the estimator for the record, a negative output clipped to 0.
predict_member_risk(model, member_id) ==
    IF ~model.trained THEN [raised |-> "NotTrainedError"]
    ELSE [raised |-> "none", value |-> Max(0, model.estimator[member_id])]

\* get_performance_metrics(): the metrics of the training run the model holds.
get_performance_metrics(model) == [run |-> RunOf(model)]

\* ---------------------------------------------------- CostDriverAnalysis
\* analyze(df): fits the cost model and returns the report; raises below the minimum
\* sample size.
analyze(model, df) ==
    IF df.records < MinTrainingRecords
    THEN [raised |-> "InsufficientDataError", model |-> model]
    ELSE [raised |-> "none", model |-> [fitted |-> TRUE]]

\* ------------------------------------------------------------ the handlers
\* The status of a response.  Every handler runs in "try: ... except Exception as e:
\* raise HTTPException(status_code=500, ...)", and HTTPException is an Exception: an
\* HTTPException raised inside the try block is caught there as well.
status_of(raised) == IF raised = "none" THEN 200 ELSE 500

\* The thresholds of the risk level, in hundredths.
HighAbove == 70
MediumAbove == 40

\* "High" if risk_score >= 0.7 ... (a faulty variant of risk_level_of).
risk_level_inclusive(risk_score) ==
    IF risk_score >= HighAbove THEN "High"
    ELSE IF risk_score >= MediumAbove THEN "Medium" ELSE "Low"

\* "High" if risk_score > 0.7 else "Medium" if risk_score > 0.4 else "Low"
risk_level_of(risk_score) ==
    IF risk_score > HighAbove THEN "High"
    ELSE IF risk_score > MediumAbove THEN "Medium" ELSE "Low"

\* The artifacts a training run may produce now: its run follows every run the model
\* object or the stored file holds.
NextRun ==
    Max(RunOf(risk_model),
        IF exists(files.risk_adjustment_model) THEN RunOf(files.risk_adjustment_model.artifact)
        ELSE 0) + 1
Fits == {Artifact(NextRun, e) : e \in Estimators}

\* What save_model(path) may do: write the file, or raise (the directory or the disk
\* does not take the write).
SaveOutcomes == {"none", "OSError"}

\* The exception the handlers raise when data/processed_claims.csv does not exist: the
\* cause of the response of status 500 that follows.
NoProcessedClaims == "No processed claims data found. Please upload data first."

\* POST /train-risk-model
TrainRiskModel ==
    /\ IF ~exists(files.processed_claims)
       THEN /\ last' = [op |-> "train_risk_model", status |-> status_of("HTTPException"),
                        cause |-> NoProcessedClaims]
            /\ UNCHANGED <<files, risk_model>>
       ELSE /\ NextRun <= MaxTrainings
            /\ \E t \in train(risk_model, files.processed_claims, Fits), saved \in SaveOutcomes :
                  /\ risk_model' = t.model
                  /\ files' = IF t.raised = "none" /\ saved = "none"
                              THEN [files EXCEPT !.risk_adjustment_model = save_model(t.model)]
                              ELSE files
                  /\ last' = [op |-> "train_risk_model",
                              status |-> status_of(IF t.raised /= "none" THEN t.raised ELSE saved)]
    /\ UNCHANGED <<mapper, args, cost_driver_model>>

\* POST /analyze-cost-drivers
AnalyzeCostDrivers ==
    /\ IF ~exists(files.processed_claims)
       THEN /\ last' = [op |-> "analyze_cost_drivers", status |-> status_of("HTTPException"),
                        cause |-> NoProcessedClaims]
            /\ UNCHANGED cost_driver_model
       ELSE LET a == analyze(cost_driver_model, files.processed_claims)
            IN  /\ cost_driver_model' = a.model
                /\ last' = [op |-> "analyze_cost_drivers", status |-> status_of(a.raised)]
    /\ UNCHANGED <<mapper, args, files, risk_model>>

\* What the body of predict_member_risk gives for a model object: [raised] or
\* [raised, risk_score, risk_level].
predict_response(model, member_id) ==
    IF ~exists(files.processed_claims) THEN [raised |-> "HTTPException"]
    ELSE IF member_id \notin files.processed_claims.members THEN [raised |-> "HTTPException"]
    ELSE LET risk_score == predict_member_risk(model, member_id)
         IN  IF risk_score.raised /= "none" THEN [raised |-> risk_score.raised]
             ELSE [raised |-> "none", risk_score |-> risk_score.value,
                   risk_level |-> risk_level_of(risk_score.value)]

\* GET /predict-risk/{member_id} that loads the file when there is one and else goes on
\* with the model object as it is (a faulty variant of PredictMemberRisk).
PredictMemberRiskWithoutFileCheck ==
    /\ \E member_id \in RequestedIds :
          LET model == IF exists(files.risk_adjustment_model)
                       THEN load_model(files.risk_adjustment_model) ELSE risk_model
              r == predict_response(model, member_id)
          IN  /\ risk_model' = model
              /\ last' = [op |-> "predict_member_risk", member_id |-> member_id,
                          status |-> status_of(r.raised), body |-> r]
    /\ UNCHANGED <<mapper, args, files, cost_driver_model>>

\* GET /predict-risk/{member_id}
PredictMemberRisk ==
    /\ \E member_id \in RequestedIds :
          IF ~exists(files.risk_adjustment_model)
          THEN /\ last' = [op |-> "predict_member_risk", member_id |-> member_id,
                           status |-> status_of("HTTPException"),
                           body |-> [raised |-> "HTTPException"]]
               /\ UNCHANGED risk_model
          ELSE LET model == load_model(files.risk_adjustment_model)
                   r == predict_response(model, member_id)
               IN  /\ risk_model' = model
                   /\ last' = [op |-> "predict_member_risk", member_id |-> member_id,
                               status |-> status_of(r.raised), body |-> r]
    /\ UNCHANGED <<mapper, args, files, cost_driver_model>>

\* GET /model-performance
GetModelPerformance ==
    /\ IF ~exists(files.risk_adjustment_model)
       THEN last' = [op |-> "model_performance", status |-> status_of("HTTPException")]
       ELSE last' = [op |-> "model_performance", status |-> status_of("none"),
                     body |-> get_performance_metrics(risk_model)]
    /\ UNCHANGED <<mapper, args, files, risk_model, cost_driver_model>>

\* The names the module binds by its imports (lines 6-23); io is none of them.
ImportedNames ==
    {"FastAPI", "HTTPException", "UploadFile", "File", "Depends", "HTMLResponse",
     "FileResponse", "StaticFiles", "Jinja2Templates", "Request", "pd", "np", "List", "Dict",
     "Optional", "json", "os", "datetime", "logging", "RiskAdjustmentModel",
     "CostDriverAnalysis", "generate_sample_data", "ClaimsProcessor", "HCCMapper"}

\* str.endswith
endswith(s, suffix) ==
    /\ Len(s) >= Len(suffix)
    /\ SubSeq(s, Len(s) - Len(suffix) + 1, Len(s)) = suffix

Str_dot_csv == <<".", "c", "s", "v">>
Str_dot_xlsx == <<".", "x", "l", "s", "x">>

\* The file names of the uploads: a.csv, a.xlsx, a.txt and csv.
Filenames ==
    {<<"a">> \o Str_dot_csv, <<"a">> \o Str_dot_xlsx, <<"a", ".", "t", "x", "t">>,
     <<"c", "s", "v">>}

\* The contents of the uploads, each given as the frame pandas reads of it: one record,
\* two records of which one is malformed, no record, and a frame without the column age.
UploadFrames ==
    {FrameOf(AllColumns, <<BaseCells>>),
     FrameOf(AllColumns, <<BaseCells, [BaseCells EXCEPT !.member_id = Text(Str_B),
                                                        !.total_cost = Num(-5)]>>),
     FrameOf(AllColumns, <<>>),
     FrameOf(AllColumns \ {"age"}, <<BaseCells>>)}

\* The file to_csv writes of a processed frame, as read_csv reads it later.
stored_frame(df) ==
    Dataset(Len(df.rows),
            {IF c.member_id = Text(Str_A) THEN "A" ELSE "B" : c \in CellsOf(df)})

\* Lines 63-68: the frame read of the upload.  The name io is looked up when the call
\* of line 64 or 66 is evaluated, and raises NameError when the module does not bind it.
read_upload(filename, content) ==
    IF endswith(filename, Str_dot_csv) \/ endswith(filename, Str_dot_xlsx)
    THEN IF "io" \in ImportedNames
         THEN [raised |-> "none", df |-> content]
         ELSE [raised |-> "NameError"]
    ELSE [raised |-> "HTTPException"]

\* The body of upload_claims: [raised] or [raised, stored, records].
upload_claims(filename, content) ==
    LET read == read_upload(filename, content)
    IN  IF read.raised /= "none" THEN [raised |-> read.raised]
        ELSE LET processed_data == process_claims(read.df)
             IN  IF processed_data.raised /= "none" THEN [raised |-> processed_data.raised]
                 ELSE [raised |-> "none", stored |-> stored_frame(processed_data.value),
                       records |-> Len(processed_data.value.rows)]

\* POST /upload-claims
UploadClaims ==
    /\ \E filename \in Filenames, content \in UploadFrames :
          LET r == upload_claims(filename, content)
          IN  /\ files' = IF r.raised = "none"
                          THEN [files EXCEPT !.processed_claims = r.stored] ELSE files
              /\ last' = IF r.raised = "none"
                         THEN [op |-> "upload_claims", filename |-> filename,
                               content |-> content, status |-> status_of(r.raised),
                               cause |-> r.raised, records |-> r.records]
                         ELSE [op |-> "upload_claims", filename |-> filename,
                               content |-> content, status |-> status_of(r.raised),
                               cause |-> r.raised]
    /\ UNCHANGED <<mapper, args, risk_model, cost_driver_model>>

\* The number of members of the sample the handlers ask for.
n_members == 1000

\* generate_sample_data(n_members=1000, n_claims=5000): a dataset of one record for each
\* member.
generate_sample_data == Dataset(n_members, MemberIds)

\* POST /generate-sample-data that writes the sample over the processed claims (a
\* faulty variant of GenerateSample).
GenerateSampleIntoProcessedClaims ==
    /\ files' = [files EXCEPT !.processed_claims = generate_sample_data]
    /\ last' = [op |-> "generate_sample", status |-> status_of("none"),
                records |-> generate_sample_data.records]
    /\ UNCHANGED <<mapper, args, risk_model, cost_driver_model>>

\* POST /generate-sample-data
GenerateSample ==
    /\ files' = [files EXCEPT !.sample_claims = generate_sample_data]
    /\ last' = [op |-> "generate_sample", status |-> status_of("none"),
                records |-> generate_sample_data.records]
    /\ UNCHANGED <<mapper, args, risk_model, cost_driver_model>>

\* GET /download-sample
DownloadSample ==
    /\ files' = IF ~exists(files.sample_claims)
                THEN [files EXCEPT !.sample_claims = generate_sample_data] ELSE files
    /\ last' = [op |-> "download_sample", status |-> status_of("none"),
                body |-> IF ~exists(files.sample_claims)
                         THEN generate_sample_data ELSE files.sample_claims]
    /\ UNCHANGED <<mapper, args, risk_model, cost_driver_model>>

\* The service process ends and a new one starts: the module is run again, the files
\* stay.
Restart ==
    /\ risk_model' = Untrained
    /\ cost_driver_model' = Unfitted
    /\ last' = [op |-> "start"]
    /\ UNCHANGED <<mapper, args, files>>

NextService ==
    \/ UploadClaims
    \/ GenerateSample
    \/ DownloadSample
    \/ TrainRiskModel
    \/ AnalyzeCostDrivers
    \/ PredictMemberRisk
    \/ GetModelPerformance
    \/ Restart

\* The processed claims the service may find stored when it starts: none, too few
\* records to train on, or enough of them.
StoredAtStart ==
    {NoFile, Dataset(3, {"A"}), Dataset(50, {"A"}), Dataset(50, MemberIds)}

\* The service process as started: the objects of lines 40-43, no model file, and the
\* processed claims an earlier process or an operator left.
InitService ==
    /\ hcc_mapping = [c \in DOMAIN HccMappingLiteral |-> c]
    /\ list_objects = HccMappingLiteral
    /\ hcc_weights = HccWeightsLiteral
    /\ age_sex_table = [kind |-> "literal"]
    /\ args = [kind |-> "http"]
    /\ last = [op |-> "start"]
    /\ files \in {[NoFiles EXCEPT !.processed_claims = d] : d \in StoredAtStart}
    /\ risk_model = Untrained
    /\ cost_driver_model = Unfitted

SpecService == InitService /\ [][NextService]_vars

\* ======================================================================
\* Properties of the service.
\* ======================================================================
TrainDone == last.op = "train_risk_model"
AnalyzeDone == last.op = "analyze_cost_drivers"
PredictDone == last.op = "predict_member_risk"
PerformanceDone == last.op = "model_performance"

\* C16: a request whose prerequisite is absent is answered with status 404: train and
\* analyze without stored processed claims, model-performance without a stored model.
\* (No request removes a file, so the files of the state are those the request found.)
C16_MissingPrerequisiteIs404 ==
    /\ ((TrainDone \/ AnalyzeDone) /\ ~exists(files.processed_claims)) => last.status = 404
    /\ (PerformanceDone /\ ~exists(files.risk_adjustment_model)) => last.status = 404

\* What the code does for C16: such a request is answered with an error status, 500.
MissingPrerequisiteIsAnError ==
    /\ ((TrainDone \/ AnalyzeDone) /\ ~exists(files.processed_claims)) => last.status = 500
    /\ (PerformanceDone /\ ~exists(files.risk_adjustment_model)) => last.status = 500

\* C17: a train request is all or nothing.  One that succeeds leaves the model object
\* and the stored file with the artifact of the new run; one that fails leaves the model
\* object and the files as they were.
C17_TrainAllOrNothing ==
    [][last'.op = "train_risk_model" =>
          IF last'.status = 200
          THEN /\ risk_model'.trained
               /\ RunOf(risk_model') > RunOf(risk_model)
               /\ files'.risk_adjustment_model = save_model(risk_model')
          ELSE risk_model' = risk_model /\ files' = files]_vars

\* What the code does for C17: a failed train request leaves the files as they were (the
\* stored artifact is replaced on success only).
FailedTrainKeepsFiles ==
    [][(last'.op = "train_risk_model" /\ last'.status /= 200) => files' = files]_vars

\* C18: a prediction request made while no trained artifact is stored is answered with an
\* error and without a risk score, and an artifact comes to be stored only by a train
\* request that succeeds: a score is returned only after such a request.
C18_NoPredictionBeforeTraining ==
    [][/\ (last'.op = "predict_member_risk" /\ ~exists(files.risk_adjustment_model)) =>
              (last'.status /= 200 /\ "risk_score" \notin DOMAIN last'.body)
       /\ (~exists(files.risk_adjustment_model) /\ exists(files'.risk_adjustment_model)) =>
              (last'.op = "train_risk_model" /\ last'.status = 200)
       /\ (last'.op = "predict_member_risk" /\ last'.status = 200) =>
              (exists(files.risk_adjustment_model) /\ files.risk_adjustment_model.artifact.trained)]_vars

\* C18 witness: with processed claims stored and the model object trained (by a train
\* request whose save failed) but no artifact stored, a prediction was refused.
C18_Witness ==
    /\ PredictDone
    /\ ~exists(files.risk_adjustment_model)
    /\ exists(files.processed_claims)
    /\ last.member_id \in files.processed_claims.members
    /\ risk_model.trained
    /\ last.status = 500

\* A prediction was answered with a score, after a train request had stored an artifact.
PredictionAfterTraining ==
    /\ PredictDone
    /\ last.status = 200
    /\ exists(files.risk_adjustment_model)

\* The rank of a risk level.
LevelRank(level) == CASE level = "Low" -> 0 [] level = "Medium" -> 1 [] level = "High" -> 2

\* The scores the levels are compared on, in hundredths: 0.00 .. 1.50.
Scores == 0..150

\* C19: the risk level of a prediction is that of its score alone: High exactly above
\* 0.7, Medium exactly above 0.4 and up to 0.7, Low otherwise; and the level never
\* decreases when the score increases.
C19_RiskLevelOfScore ==
    /\ (PredictDone /\ last.status = 200) =>
          /\ last.body.risk_level = "High" <=> last.body.risk_score > 70
          /\ last.body.risk_level = "Medium" <=>
                (last.body.risk_score > 40 /\ last.body.risk_score <= 70)
          /\ last.body.risk_level = "Low" <=> last.body.risk_score <= 40
    /\ risk_level_of(70) = "Medium" /\ risk_level_of(40) = "Low"
    /\ \A s \in Scores \ {0} :
          LevelRank(risk_level_of(s - 1)) <= LevelRank(risk_level_of(s))

\* C19 witness: a prediction with score 0.70 was reported Medium.
C19_Witness ==
    /\ PredictDone
    /\ last.status = 200
    /\ last.body.risk_score = 70
    /\ last.body.risk_level = "Medium"

\* C20: the risk score a prediction reports is never negative.
C20_RiskScoreNonNegative ==
    (PredictDone /\ last.status = 200) => last.body.risk_score >= 0

\* C20 witness: a prediction for a member whose estimator output is negative reported 0.
C20_Witness ==
    /\ PredictDone
    /\ last.status = 200
    /\ risk_model.estimator[last.member_id] < 0
    /\ last.body.risk_score = 0

UploadDone == last.op = "upload_claims"
SampleDone == last.op \in {"generate_sample", "download_sample"}

\* C23: an upload whose file name ends in .csv and whose content has every required
\* column succeeds, reports the number of the processed records, and stores the
\* processed dataset, so that the processed claims data exists for a train request that
\* follows.
C23_CsvUploadStored ==
    (UploadDone /\ endswith(last.filename, Str_dot_csv) /\ HasRequiredColumns(last.content)) =>
        /\ last.status = 200
        /\ last.records = Len(process_claims(last.content).value.rows)
        /\ exists(files.processed_claims)
        /\ files.processed_claims.records = last.records

\* What the code does for C23: every upload ends in an exception, a NameError for a
\* name ending in .csv or .xlsx, and answers 500.
UploadFails ==
    UploadDone =>
        /\ last.status = 500
        /\ last.cause = (IF endswith(last.filename, Str_dot_csv)
                            \/ endswith(last.filename, Str_dot_xlsx)
                         THEN "NameError" ELSE "HTTPException")

\* No upload stores anything.
UploadKeepsFiles ==
    [][last'.op = "upload_claims" => files' = files]_vars

\* C27: GET /model-performance queries the model object only when it was trained or
\* loaded in the running process: whenever the request gets past the check of the model
\* file, the model object of the process is trained.
C27_PerformanceOfTrainedModel ==
    (PerformanceDone /\ exists(files.risk_adjustment_model)) => risk_model.trained

\* GET /model-performance answered with the metrics of the model object trained in the
\* running process.
PerformanceAfterTraining ==
    /\ PerformanceDone
    /\ last.status = 200
    /\ risk_model.trained
    /\ last.body = get_performance_metrics(files.risk_adjustment_model.artifact)

\* What the code does for C27: the request queries the model object exactly when the
\* model file exists.
PerformanceChecksFileOnly ==
    PerformanceDone => (last.status = 200 <=> exists(files.risk_adjustment_model))

\* C28: POST /generate-sample-data and GET /download-sample leave the processed claims,
\* the model file and the model objects as they were, and a train or analyze request
\* that follows them without processed claims reports that there are none.
C28_SampleLeavesClaimsAndModel ==
    [][/\ last'.op \in {"generate_sample", "download_sample"} =>
             /\ files'.processed_claims = files.processed_claims
             /\ files'.risk_adjustment_model = files.risk_adjustment_model
             /\ risk_model' = risk_model
             /\ cost_driver_model' = cost_driver_model
       /\ (/\ SampleDone
           /\ last'.op \in {"train_risk_model", "analyze_cost_drivers"}
           /\ files = [NoFiles EXCEPT !.sample_claims = generate_sample_data]) =>
             /\ "cause" \in DOMAIN last'
             /\ last'.cause = NoProcessedClaims]_vars

\* C28 witness: with the sample file written and nothing else stored, a train request
\* was answered with the error of the missing processed claims.
C28_Witness ==
    /\ TrainDone
    /\ files = [NoFiles EXCEPT !.sample_claims = generate_sample_data]
    /\ last.status = 500
    /\ last.cause = NoProcessedClaims
====
